---- MODULE Spec2Model ----
(***************************************************************************)
(* FPLOptimizer (src/flask_app/utils/optimizer.py): optimize_squad, a 0/1  *)
(* programme over a pool of players, and optimize_multiple_squads, which   *)
(* calls it on a shrinking pool.                                           *)
(*                                                                         *)
(* A pool is a DataFrame: a function from its index labels (player ids,    *)
(* 1..n in row order) to rows [name, team, position, price,                *)
(* predicted_points].  Prices are in tenths (now_cost, so 100.0 is 1000),  *)
(* predicted points are integers.                                          *)
(***************************************************************************)
EXTENDS Integers, Sequences, FiniteSets, TLC

VARIABLES
    pool,              \* players_df: id -> row
    team_column,       \* 'team' in players_df.columns
    budget,            \* budget argument
    num_squads,        \* num_squads argument
    pc,                \* position of the running call
    result,            \* value returned by optimize_squad
    selected_ids,      \* optimize_squad's local selected_ids (a set; pool order is id order)
    i,                 \* loop variable of optimize_multiple_squads
    excluded_players,  \* optimize_multiple_squads' excluded_players
    squads,            \* optimize_multiple_squads' squads
    rounds             \* per completed round: the ids handed to the solver and the ids it selected

vars == <<pool, team_column, budget, num_squads, pc, result, selected_ids,
          i, excluded_players, squads, rounds>>

(***************************************************************************)
(* Bounds of the model.                                                    *)
(***************************************************************************)
MaxExtra == 3          \* single solve: pools of SquadSize-1 .. SquadSize+MaxExtra players
MaxScoreStep == 3      \* predicted points take the steps 1..MaxScoreStep
MaxTeamsExtra == 3     \* GroupCap+2 .. GroupCap+1+MaxTeamsExtra teams
MaxMultiExtra == 1     \* multiple squads: pools of 2*SquadSize-1 .. 2*SquadSize+MaxMultiExtra
MaxNumSquads == 3      \* num_squads in 0..MaxNumSquads
MaxTwin == 2           \* players 1..MaxTwin may have a namesake

(***************************************************************************)
(* Program constants.                                                      *)
(***************************************************************************)
SquadSize == 15
QuotaGK == 2
QuotaDEF == 5
QuotaMID == 5
QuotaFWD == 3
GroupCap == 3
OptimalStatus == 1

DefaultBudget == 1000

(***************************************************************************)
(* Inputs: the players table the caller loads and scores.                  *)
(***************************************************************************)
PositionPattern ==
    <<"FWD", "GK", "DEF", "MID", "DEF", "MID", "GK", "DEF", "MID", "FWD",
      "DEF", "MID", "DEF", "MID", "FWD">>

TeamNames == <<"ARS", "AVL", "BOU", "BRE", "BHA", "CHE", "CRY", "EVE", "FUL", "LIV">>

Budgets == {DefaultBudget - 400, DefaultBudget - 20, DefaultBudget}

\* Row k of a table of n players.  step spreads the predicted points, tmod is
\* the number of clubs, and a twin t > 0 gives player t + SquadSize the display
\* name of player t.
PlayerRow(k, step, tmod, twin) ==
    LET pts == (k * step) % 7
    IN  [name |-> IF twin > 0 /\ k = twin + SquadSize THEN twin ELSE k,
         team |-> TeamNames[(k % tmod) + 1],
         position |-> PositionPattern[((k - 1) % SquadSize) + 1],
         price |-> 50 + 5 * ((2 * k + pts) % 7),
         predicted_points |-> pts]

MakePool(n, step, tmod, twin) == [k \in 1..n |-> PlayerRow(k, step, tmod, twin)]

(***************************************************************************)
(* optimize_squad, lines 10-21: the columns as dictionaries and the ids by *)
(* position.  ids is the index of the frame handed in.                     *)
(***************************************************************************)
predicted_points(k) == pool[k].predicted_points
prices(k) == pool[k].price
positions(k) == pool[k].position
names(k) == pool[k].name

\* teams, line 15: the empty dictionary when the frame has no team column
teams(ids) == IF team_column THEN [k \in ids |-> pool[k].team] ELSE << >>

\* set(teams.values()), line 47
TeamValues(ids) == IF team_column THEN {pool[k].team : k \in ids} ELSE {}

\* teams.get(pid, 'Unknown'), line 77
TeamOrUnknown(ids, k) == IF k \in DOMAIN teams(ids) THEN teams(ids)[k] ELSE "Unknown"

gk_ids(ids) == {k \in ids : positions(k) = "GK"}
def_ids(ids) == {k \in ids : positions(k) = "DEF"}
mid_ids(ids) == {k \in ids : positions(k) = "MID"}
fwd_ids(ids) == {k \in ids : positions(k) = "FWD"}

\* Largest id of a set of ids (0 for the empty set)
MaxId(S) == IF S = {} THEN 0 ELSE CHOOSE k \in S : \A j \in S : j <= k

\* lpSum / sum of a column over the ids of S
RECURSIVE Total(_, _)
Total(S, col) ==
    IF S = {} THEN 0
    ELSE LET k == CHOOSE x \in S : TRUE
         IN  pool[k][col] + Total(S \ {k}, col)

(***************************************************************************)
(* The linear programme, lines 23-50.  A selection S is the set of ids     *)
(* whose binary variable is 1.                                             *)
(***************************************************************************)
\* Objective, line 30: coefficient of player k's variable
ObjectiveMinimised(k) == 0 - predicted_points(k)

ObjectiveCoefficient(k) == predicted_points(k)

RECURSIVE Objective(_)
Objective(S) ==
    IF S = {} THEN 0
    ELSE LET k == CHOOSE x \in S : TRUE
         IN  ObjectiveCoefficient(k) + Objective(S \ {k})

\* Budget constraint, line 34
BudgetUnconstrained(total_price, b) == TRUE

BudgetConstraint(total_price, b) == total_price <= b

\* Squad size, line 37
SizeConstraint(S) == Cardinality(S) = SquadSize

\* Position constraints, lines 40-43
QuotaThreeKeepers(pos) ==
    CASE pos = "GK" -> QuotaGK + 1
      [] pos = "DEF" -> QuotaDEF - 1
      [] pos = "MID" -> QuotaMID
      [] pos = "FWD" -> QuotaFWD

Quota(pos) ==
    CASE pos = "GK" -> QuotaGK
      [] pos = "DEF" -> QuotaDEF
      [] pos = "MID" -> QuotaMID
      [] pos = "FWD" -> QuotaFWD

PositionIds(ids, pos) ==
    CASE pos = "GK" -> gk_ids(ids)
      [] pos = "DEF" -> def_ids(ids)
      [] pos = "MID" -> mid_ids(ids)
      [] pos = "FWD" -> fwd_ids(ids)

PositionConstraint(ids, S, pos) == Cardinality(S \cap PositionIds(ids, pos)) = Quota(pos)

\* Team limit, lines 46-50: one constraint per team of the teams dictionary
TeamUnconstrained(ids, S) == TRUE

TeamConstraint(ids, S) ==
    \A team \in TeamValues(ids) :
        Cardinality({k \in S : pool[k].team = team}) <= GroupCap

\* All constraints of the programme on a complete selection
Feasible(ids, S, b) ==
    /\ S \subseteq ids
    /\ BudgetConstraint(Total(S, "price"), b)
    /\ SizeConstraint(S)
    /\ \A pos \in {"GK", "DEF", "MID", "FWD"} : PositionConstraint(ids, S, pos)
    /\ TeamConstraint(ids, S)

(***************************************************************************)
(* problem.solve, line 53.  The solver is exact: it reports Optimal (1)    *)
(* with some selection of greatest objective when the programme is         *)
(* feasible and Infeasible (-1) otherwise.  Which of several optimal       *)
(* selections it returns is the solver's choice.  The search assigns one   *)
(* position at a time and drops a partial selection as soon as no          *)
(* completion can meet the budget, the team limit or the target objective  *)
(* (prices are not negative).                                              *)
(***************************************************************************)
SetMax(V) == CHOOSE x \in V : \A y \in V : y <= x
SetMin(V) == CHOOSE x \in V : \A y \in V : x <= y

\* The selections of one position that meet its constraint
Choices(ids, pos) ==
    LET players == PositionIds(ids, pos)
    IN  {T \in SUBSET players : Cardinality(T) = Quota(pos)}

\* The selections of one position, each with its objective and its price
Priced(ids, pos) ==
    {[players |-> T, objective |-> Objective(T), price |-> Total(T, "price")] :
        T \in Choices(ids, pos)}

\* Greatest and least objective, and least price, among the selections C
BestOf(C) == IF C = {} THEN 0 ELSE SetMax({c.objective : c \in C})
WorstOf(C) == IF C = {} THEN 0 ELSE SetMin({c.objective : c \in C})
CheapestOf(C) == IF C = {} THEN 0 ELSE SetMin({c.price : c \in C})

\* A partial selection of the given objective, price and players that some
\* completion of price >= restPrice and objective <= restBest may still turn
\* into a feasible selection of objective >= v
Admissible(ids, objective, price, players, b, v, restPrice, restBest) ==
    /\ objective + restBest >= v
    /\ BudgetConstraint(price + restPrice, b)
    /\ TeamConstraint(ids, players)

\* Some feasible selection has objective >= v
Reaches(ids, b, v) ==
    LET G == Priced(ids, "GK")
        D == Priced(ids, "DEF")
        M == Priced(ids, "MID")
        F == Priced(ids, "FWD")
        cD == CheapestOf(D)
        cM == CheapestOf(M)
        cF == CheapestOf(F)
        bD == BestOf(D)
        bM == BestOf(M)
        bF == BestOf(F)
    IN  \E g \in G :
          /\ Admissible(ids, g.objective, g.price, g.players,
                        b, v, cD + cM + cF, bD + bM + bF)
          /\ \E d \in D :
                /\ Admissible(ids, g.objective + d.objective, g.price + d.price,
                              g.players \cup d.players, b, v, cM + cF, bM + bF)
                /\ \E m \in M :
                      /\ Admissible(ids, g.objective + d.objective + m.objective,
                                    g.price + d.price + m.price,
                                    g.players \cup d.players \cup m.players,
                                    b, v, cF, bF)
                      /\ \E f \in F :
                            /\ Admissible(ids,
                                  g.objective + d.objective + m.objective + f.objective,
                                  g.price + d.price + m.price + f.price,
                                  g.players \cup d.players \cup m.players \cup f.players,
                                  b, v, 0, 0)
                            /\ Feasible(ids, g.players \cup d.players \cup m.players
                                              \cup f.players, b)

\* Two partial selections put together
Joined(x, y) ==
    [players |-> x.players \cup y.players,
     objective |-> x.objective + y.objective,
     price |-> x.price + y.price]

\* The feasible selections of objective >= v
SelectionsReaching(ids, b, v) ==
    LET G == Priced(ids, "GK")
        D == Priced(ids, "DEF")
        M == Priced(ids, "MID")
        F == Priced(ids, "FWD")
        cD == CheapestOf(D)
        cM == CheapestOf(M)
        cF == CheapestOf(F)
        bD == BestOf(D)
        bM == BestOf(M)
        bF == BestOf(F)
        Keep(x, restPrice, restBest) ==
            Admissible(ids, x.objective, x.price, x.players, b, v, restPrice, restBest)
        G1 == {g \in G : Keep(g, cD + cM + cF, bD + bM + bF)}
        G2 == UNION {{Joined(g, d) : d \in {x \in D : Keep(Joined(g, x), cM + cF, bM + bF)}} :
                     g \in G1}
        G3 == UNION {{Joined(gd, m) : m \in {x \in M : Keep(Joined(gd, x), cF, bF)}} :
                     gd \in G2}
        G4 == UNION {{Joined(gdm, f) : f \in {x \in F : Keep(Joined(gdm, x), 0, 0)}} :
                     gdm \in G3}
    IN  {x.players : x \in {y \in G4 : Feasible(ids, y.players, b)}}

LowestObjective(ids) ==
    WorstOf(Priced(ids, "GK")) + WorstOf(Priced(ids, "DEF"))
        + WorstOf(Priced(ids, "MID")) + WorstOf(Priced(ids, "FWD"))

HighestObjective(ids) ==
    BestOf(Priced(ids, "GK")) + BestOf(Priced(ids, "DEF"))
        + BestOf(Priced(ids, "MID")) + BestOf(Priced(ids, "FWD"))

\* status, line 53: 1 (Optimal) or -1 (Infeasible)
LpStatus(ids, b) == IF Reaches(ids, b, LowestObjective(ids)) THEN OptimalStatus ELSE 0 - 1

\* The optimal objective of a feasible programme: the greatest v that is reached
RECURSIVE GreatestReached(_, _, _)
GreatestReached(ids, b, v) ==
    IF Reaches(ids, b, v) THEN v ELSE GreatestReached(ids, b, v - 1)

OptimalObjective(ids, b) == GreatestReached(ids, b, HighestObjective(ids))

\* The selections the solver may leave in player_vars when it reports Optimal
OptimalSelections(ids, b) == SelectionsReaching(ids, b, OptimalObjective(ids, b))

\* The ids whose variable has value 1 after the solve.  Without an optimal
\* solution no variable holds 1; the code never reads them in that case.
SolverValues(ids, b) ==
    IF LpStatus(ids, b) = OptimalStatus THEN OptimalSelections(ids, b) ELSE {{}}

\* "if status != 1", line 56
AcceptsAnyStatus(status) == FALSE

NoSolution(status) == status # OptimalStatus

(***************************************************************************)
(* Building the squad dictionary, lines 60-105.                            *)
(***************************************************************************)
\* The ids of S in pool order
RECURSIVE IdsUpTo(_, _)
IdsUpTo(S, k) ==
    IF k = 0 THEN << >>
    ELSE IF k \in S THEN Append(IdsUpTo(S, k - 1), k) ELSE IdsUpTo(S, k - 1)

InPoolOrder(S) == IdsUpTo(S, MaxId(S))

\* player_info, lines 75-80
player_info(ids, pid) ==
    [name |-> names(pid),
     team |-> TeamOrUnknown(ids, pid),
     price |-> prices(pid),
     predicted_points |-> predicted_points(pid)]

\* The list of one position, lines 74-89: appended in pool order
PositionList(ids, S, pos) ==
    LET order == InPoolOrder(S \cap PositionIds(ids, pos))
    IN  [n \in 1..Len(order) |-> player_info(ids, order[n])]

\* list.sort(key=predicted_points, reverse=True), line 93: stable, descending
InsertDescending(sorted, x) ==
    LET before == Cardinality({n \in 1..Len(sorted) :
                      sorted[n].predicted_points >= x.predicted_points})
    IN  SubSeq(sorted, 1, before) \o <<x>> \o SubSeq(sorted, before + 1, Len(sorted))

RECURSIVE SortDescending(_)
SortDescending(list) ==
    IF list = << >> THEN << >>
    ELSE InsertDescending(SortDescending(SubSeq(list, 1, Len(list) - 1)), list[Len(list)])

\* The lists that line 92 sorts
SortedKeys == {"defenders", "midfielders", "forwards"}

SortedList(key, list) == IF key \in SortedKeys THEN SortDescending(list) ELSE list

\* max(all_players, key=predicted_points), line 97: the first greatest element
LastGreatest(all_players) ==
    all_players[SetMax({n \in 1..Len(all_players) :
        \A m \in 1..Len(all_players) :
            all_players[m].predicted_points <= all_players[n].predicted_points})]

FirstGreatest(all_players) ==
    all_players[SetMin({n \in 1..Len(all_players) :
        \A m \in 1..Len(all_players) :
            all_players[m].predicted_points <= all_players[n].predicted_points})]

\* total_with_captain, line 103
CaptainDoubled(total_predicted, captain_points) == total_predicted + 2 * captain_points

TotalWithCaptain(total_predicted, captain_points) == total_predicted + captain_points

AllPlayers(squad) ==
    squad.goalkeepers \o squad.defenders \o squad.midfielders \o squad.forwards

\* The dictionary returned for the selection S of the frame ids (S not empty)
BuildSquad(ids, S) ==
    LET gks == SortedList("goalkeepers", PositionList(ids, S, "GK"))
        dfs == SortedList("defenders", PositionList(ids, S, "DEF"))
        mds == SortedList("midfielders", PositionList(ids, S, "MID"))
        fws == SortedList("forwards", PositionList(ids, S, "FWD"))
        captain == FirstGreatest(gks \o dfs \o mds \o fws)
    IN  [status |-> "success",
         total_cost |-> Total(S, "price"),
         total_predicted |-> Total(S, "predicted_points"),
         goalkeepers |-> gks,
         defenders |-> dfs,
         midfielders |-> mds,
         forwards |-> fws,
         captain |-> captain.name,
         captain_points |-> captain.predicted_points,
         total_with_captain |->
             TotalWithCaptain(Total(S, "predicted_points"), captain.predicted_points)]

FailedResult == [status |-> "failed", message |-> "No optimal solution found"]

NoResult == [status |-> "none"]

(***************************************************************************)
(* One call of optimize_squad(players_df, budget) on the whole pool.       *)
(***************************************************************************)
Init ==
    /\ \E n \in (SquadSize - 1)..(SquadSize + MaxExtra), step \in 1..MaxScoreStep,
          tmod \in (GroupCap + 2)..(GroupCap + 1 + MaxTeamsExtra) :
            pool = MakePool(n, step, tmod, 0)
    /\ team_column \in BOOLEAN
    /\ budget \in Budgets
    /\ num_squads = 0
    /\ pc = "optimize_squad"
    /\ result = NoResult
    /\ selected_ids = {}
    /\ i = 0
    /\ excluded_players = {}
    /\ squads = << >>
    /\ rounds = << >>

\* Lines 52-57: the solver finds no optimal solution
OptimizeSquadFailed ==
    /\ pc = "optimize_squad"
    /\ NoSolution(LpStatus(DOMAIN pool, budget))
    /\ result' = FailedResult
    /\ pc' = "returned"
    /\ UNCHANGED <<pool, team_column, budget, num_squads, selected_ids, i,
                   excluded_players, squads, rounds>>

\* Lines 59-105: a squad is built from the solver's values; max() of an empty
\* list raises ValueError
OptimizeSquadSolved ==
    /\ pc = "optimize_squad"
    /\ ~NoSolution(LpStatus(DOMAIN pool, budget))
    /\ \E S \in SolverValues(DOMAIN pool, budget) :
          /\ selected_ids' = S
          /\ IF S = {}
             THEN result' = NoResult /\ pc' = "raised"
             ELSE result' = BuildSquad(DOMAIN pool, S) /\ pc' = "returned"
    /\ UNCHANGED <<pool, team_column, budget, num_squads, i,
                   excluded_players, squads, rounds>>

Next == OptimizeSquadFailed \/ OptimizeSquadSolved

Spec == Init /\ [][Next]_vars

(***************************************************************************)
(* optimize_multiple_squads(players_df, num_squads, budget), lines         *)
(* 109-144.  One action is one pass through the loop body or the return.   *)
(***************************************************************************)
InitMulti ==
    /\ \E n \in (2 * SquadSize - 1)..(2 * SquadSize + MaxMultiExtra),
          step \in {1, MaxScoreStep}, twin \in 0..MaxTwin :
            pool = MakePool(n, step, GroupCap + 2 + MaxTeamsExtra, twin)
    /\ team_column = TRUE
    /\ budget \in Budgets
    /\ num_squads \in 0..MaxNumSquads
    /\ pc = "loop"
    /\ result = NoResult
    /\ selected_ids = {}
    /\ i = 0
    /\ excluded_players = {}
    /\ squads = << >>
    /\ rounds = << >>

\* available_df, line 116: the rows whose index is not in excluded_players
available_df == DOMAIN pool \ excluded_players

\* Lines 137-139: the indices of available_df that carry the name of a
\* selected player
ExcludesNothing(avail, all_selected) == {}

NameMatches(avail, all_selected) ==
    UNION {{k \in avail : names(k) = all_selected[n].name} : n \in 1..Len(all_selected)}

\* The entry appended to squads, lines 126-131: the numbering followed by the
\* keys of the squad; the formatted strings are kept as their parts
NumberedFromZero(number, squad) ==
    squad @@ [squad_number |-> number - 1,
              squad_name |-> <<"Squad Option ", number - 1>>,
              description |-> <<"Optimal squad #", number - 1, " maximizing predicted points">>]

SquadEntry(number, squad) ==
    squad @@ [squad_number |-> number,
              squad_name |-> <<"Squad Option ", number>>,
              description |-> <<"Optimal squad #", number, " maximizing predicted points">>]

\* range(num_squads) is exhausted: return squads, line 144
LoopExhausted ==
    /\ pc = "loop"
    /\ i >= num_squads
    /\ pc' = "returned"
    /\ UNCHANGED <<pool, team_column, budget, num_squads, result, selected_ids, i,
                   excluded_players, squads, rounds>>

\* Lines 119-120: fewer than 15 rows are left
ContinuesWhenTooFew ==
    /\ pc = "loop"
    /\ i < num_squads
    /\ Cardinality(available_df) < SquadSize
    /\ i' = i + 1
    /\ UNCHANGED <<pool, team_column, budget, num_squads, result, selected_ids, pc,
                   excluded_players, squads, rounds>>

BreakTooFew ==
    /\ pc = "loop"
    /\ i < num_squads
    /\ Cardinality(available_df) < SquadSize
    /\ pc' = "returned"
    /\ UNCHANGED <<pool, team_column, budget, num_squads, result, selected_ids, i,
                   excluded_players, squads, rounds>>

\* Lines 123-125 and 140-142: optimize_squad reports failure
BreakFailed ==
    /\ pc = "loop"
    /\ i < num_squads
    /\ Cardinality(available_df) >= SquadSize
    /\ NoSolution(LpStatus(available_df, budget))
    /\ result' = FailedResult
    /\ rounds' = Append(rounds, [handed |-> available_df, selected |-> {}])
    /\ pc' = "returned"
    /\ UNCHANGED <<pool, team_column, budget, num_squads, selected_ids, i,
                   excluded_players, squads>>

\* Lines 123-139: optimize_squad returns a squad; it is appended and the
\* players it names are excluded
RoundSucceeded ==
    /\ pc = "loop"
    /\ i < num_squads
    /\ Cardinality(available_df) >= SquadSize
    /\ ~NoSolution(LpStatus(available_df, budget))
    /\ \E S \in SolverValues(available_df, budget) :
          /\ selected_ids' = S
          /\ rounds' = Append(rounds, [handed |-> available_df, selected |-> S])
          /\ IF S = {}
             THEN /\ pc' = "raised"
                  /\ UNCHANGED <<result, squads, excluded_players, i>>
             ELSE LET squad == BuildSquad(available_df, S)
                  IN  /\ result' = squad
                      /\ squads' = Append(squads, SquadEntry(i + 1, squad))
                      /\ excluded_players' = excluded_players \cup
                             NameMatches(available_df, AllPlayers(squad))
                      /\ i' = i + 1
                      /\ pc' = "loop"
    /\ UNCHANGED <<pool, team_column, budget, num_squads>>

NextMulti == LoopExhausted \/ BreakTooFew \/ BreakFailed \/ RoundSucceeded

SpecMulti == InitMulti /\ [][NextMulti]_vars

(***************************************************************************)
(* Properties of optimize_squad.  The selections below are enumerated and  *)
(* tested directly on the rows of the pool, not through the programme.     *)
(***************************************************************************)
\* The subsets of S with k members, each built once in ascending id order
RECURSIVE SubsetsOfSize(_, _)
SubsetsOfSize(S, k) ==
    IF k = 0 THEN {{}}
    ELSE UNION {{T \cup {x} : T \in SubsetsOfSize({y \in S : y > x}, k - 1)} : x \in S}

CountAt(S, pos) == Cardinality({k \in S : pool[k].position = pos})

MeetsQuotas(S) ==
    /\ CountAt(S, "GK") = 2
    /\ CountAt(S, "DEF") = 5
    /\ CountAt(S, "MID") = 5
    /\ CountAt(S, "FWD") = 3

WithinGroupCap(S) ==
    team_column =>
        \A k \in S : Cardinality({j \in S : pool[j].team = pool[k].team}) <= 3

\* Every selection of 15 players of the pool that meets the quotas, the
\* budget b and the group cap, by enumeration of the players left out
AllFeasible(b) ==
    LET ids == DOMAIN pool
        n == Cardinality(ids)
    IN  IF n < 15 THEN {}
        ELSE {S \in {ids \ R : R \in SubsetsOfSize(ids, n - 15)} :
                MeetsQuotas(S) /\ Total(S, "price") <= b /\ WithinGroupCap(S)}

Succeeded == pc = "returned" /\ result.status = "success"

\* C1: a successful result holds exactly 2 goalkeepers, 5 defenders, 5
\* midfielders and 3 forwards, 15 players in all, and the players selected
\* are that many of each position.
C1_QuotaPerCategory ==
    Succeeded =>
        /\ Len(result.goalkeepers) = 2 /\ CountAt(selected_ids, "GK") = 2
        /\ Len(result.defenders) = 5 /\ CountAt(selected_ids, "DEF") = 5
        /\ Len(result.midfielders) = 5 /\ CountAt(selected_ids, "MID") = 5
        /\ Len(result.forwards) = 3 /\ CountAt(selected_ids, "FWD") = 3
        /\ Len(AllPlayers(result)) = 15 /\ Cardinality(selected_ids) = 15

\* A squad was returned from a pool that has more goalkeepers than the quota
C1_Witness ==
    Succeeded /\ CountAt(DOMAIN pool, "GK") > 2 /\ Len(result.goalkeepers) = 2

\* C2: the total_cost of a successful result is the sum of the prices of its
\* players and is at most the budget of the call.
C2_WithinBudget ==
    Succeeded =>
        /\ result.total_cost <= budget
        /\ result.total_cost = Total(selected_ids, "price")

\* A squad was returned although 15 players meeting the quotas can cost more
\* than the budget
C2_Witness ==
    /\ Succeeded
    /\ \E S \in AllFeasible(10 * DefaultBudget) : Total(S, "price") > budget

\* C3: in a successful result no team of the pool has more than 3 players,
\* counted over the players selected and over the rows returned.
C3_GroupCap ==
    Succeeded =>
        \A team \in {teams(DOMAIN pool)[k] : k \in DOMAIN teams(DOMAIN pool)} :
            /\ Cardinality({k \in selected_ids : pool[k].team = team}) <= 3
            /\ Cardinality({n \in 1..Len(AllPlayers(result)) :
                    AllPlayers(result)[n].team = team}) <= 3

\* A squad was returned that takes exactly 3 players of a team that has more
C3_Witness ==
    /\ Succeeded
    /\ team_column
    /\ \E k \in DOMAIN pool :
          /\ Cardinality({j \in DOMAIN pool : pool[j].team = pool[k].team}) > 3
          /\ Cardinality({j \in selected_ids : pool[j].team = pool[k].team}) = 3

\* C4: on a pool of at most 20 players the total_predicted of a successful
\* result is the greatest total of predicted points over all selections
\* meeting the quotas, the budget and the group cap.
C4_Optimal ==
    (Succeeded /\ Cardinality(DOMAIN pool) <= 20) =>
        /\ selected_ids \in AllFeasible(budget)
        /\ result.total_predicted = Total(selected_ids, "predicted_points")
        /\ \A S \in AllFeasible(budget) :
              Total(S, "predicted_points") <= result.total_predicted

\* A squad was returned from a pool with a feasible selection of lower total
C4_Witness ==
    /\ Succeeded
    /\ Cardinality(DOMAIN pool) <= 20
    /\ \E S \in AllFeasible(budget) :
          Total(S, "predicted_points") < result.total_predicted

\* The greatest predicted points among the players selected
TopPoints == SetMax({pool[k].predicted_points : k \in selected_ids})

\* C5: the captain of a successful result is a player of the squad whose
\* predicted points no other player of the squad exceeds, captain_points is
\* that player's predicted points, and total_with_captain is total_predicted
\* plus captain_points.
C5_CaptainBonus ==
    Succeeded =>
        /\ \E k \in selected_ids :
              /\ pool[k].name = result.captain
              /\ pool[k].predicted_points = result.captain_points
        /\ result.captain_points = TopPoints
        /\ \E n \in 1..Len(AllPlayers(result)) :
              /\ AllPlayers(result)[n].name = result.captain
              /\ AllPlayers(result)[n].predicted_points = result.captain_points
        /\ result.total_predicted = Total(selected_ids, "predicted_points")
        /\ result.total_with_captain = result.total_predicted + result.captain_points

\* A squad was returned whose captain has points and outscores another player
C5_Witness ==
    /\ Succeeded
    /\ result.captain_points > 0
    /\ \E k \in selected_ids : pool[k].predicted_points < result.captain_points
    /\ result.total_with_captain > result.total_predicted

\* C6: when several players of a successful result share the greatest
\* predicted points, the captain is the one of smallest id among them.
C6_CaptainSmallestId ==
    Succeeded =>
        result.captain =
            pool[SetMin({k \in selected_ids : pool[k].predicted_points = TopPoints})].name

\* C10: when no selection meets all constraints, optimize_squad returns the
\* failure dictionary (status 'failed' and a message, no squad) and raises
\* nothing.
C10_InfeasibleFails ==
    (pc # "optimize_squad" /\ AllFeasible(budget) = {}) =>
        /\ pc = "returned"
        /\ result = FailedResult
        /\ selected_ids = {}

\* The call failed on a pool whose quotas and group cap can be met, for a
\* budget below the cheapest such selection
C10_Witness ==
    /\ pc = "returned"
    /\ result.status = "failed"
    /\ AllFeasible(10 * DefaultBudget) # {}
    /\ \A S \in AllFeasible(10 * DefaultBudget) : Total(S, "price") > budget

(***************************************************************************)
(* Properties of optimize_multiple_squads.  rounds records, for every call *)
(* of optimize_squad, the ids handed to it and the ids it selected.        *)
(***************************************************************************)
\* The squad inside an entry of squads: the entry without its numbering
SquadOf(entry) ==
    [key \in DOMAIN entry \ {"squad_number", "squad_name", "description"} |-> entry[key]]

\* The ids placed into a squad before round r
SelectedBefore(r) == UNION {rounds[q].selected : q \in 1..(r - 1)}

\* C7: the squads of a run are pairwise disjoint by player id: no id
\* selected in one round is selected in a later round, and every squad
\* returned is the squad built from its round's selection.
C7_PairwiseDisjoint ==
    /\ \A a \in 1..Len(rounds) : \A c \in 1..Len(rounds) :
          a < c => rounds[a].selected \cap rounds[c].selected = {}
    /\ Len(squads) <= Len(rounds)
    /\ \A j \in 1..Len(squads) :
          /\ Cardinality(rounds[j].selected) = 15
          /\ SquadOf(squads[j]) = BuildSquad(rounds[j].handed, rounds[j].selected)

\* A run returned two squads or more
C7_Witness == pc = "returned" /\ Len(squads) >= 2

\* C8: the ids handed to the solver in a round are exactly the ids of the
\* pool that no earlier round selected.
C8_ExclusionByIdentity ==
    \A r \in 1..Len(rounds) : rounds[r].handed = DOMAIN pool \ SelectedBefore(r)

\* The round that is due: it stops the loop when fewer than 15 ids are left
\* or optimize_squad finds no solution for them
RoundDue == pc = "loop" /\ i < num_squads

RoundMustStop ==
    \/ Cardinality(available_df) < 15
    \/ NoSolution(LpStatus(available_df, budget))

\* Some pass through the loop body, or the return, can be taken
StepPossible ==
    \/ i >= num_squads
    \/ RoundMustStop
    \/ SolverValues(available_df, budget) # {}

\* C9: optimize_multiple_squads returns after at most num_squads rounds.  While
\* it has not returned a step is always possible, and every step either
\* returns, leaving the squads as they are, or completes one more round, of
\* which there are at most num_squads, so it returns.  It returns only when
\* the rounds are used up, fewer than 15 ids are left or the solve failed;
\* every squad it holds is a successful squad of a round that had 15 ids or
\* more, in round order; nothing runs after the return and nothing is raised.
C9_StopsAndReturns ==
    /\ [](i <= num_squads /\ Len(rounds) <= num_squads /\ pc \in {"loop", "returned"})
    /\ [](pc = "loop" => StepPossible)
    /\ [](/\ Len(squads) = i
          /\ Len(rounds) \in {i, i + 1}
          /\ Len(rounds) = i + 1 => (pc = "returned" /\ rounds[i + 1].selected = {})
          /\ \A j \in 1..Len(squads) :
                /\ squads[j].status = "success"
                /\ Cardinality(rounds[j].handed) >= 15
                /\ SquadOf(squads[j]) = BuildSquad(rounds[j].handed, rounds[j].selected))
    /\ [](pc = "returned" => (i = num_squads \/ RoundMustStop))
    /\ [][IF pc = "returned" THEN UNCHANGED vars
          ELSE \/ pc' = "returned" /\ i' = i /\ squads' = squads
               \/ pc' = "loop" /\ i' = i + 1 /\ Len(squads') = Len(squads) + 1]_vars

\* A run stopped before num_squads rounds and returned the squads it had
C9_Witness == pc = "returned" /\ i < num_squads /\ Len(squads) >= 1

(***************************************************************************)
(* Ties between optimal squads, the numbering and ranking of the squads of *)
(* a run, and the order inside the position lists.                         *)
(***************************************************************************)
\* C11: the squad of a successful call is fixed by the pool and the budget:
\* it is the only selection the solve may hand back for them, also when
\* several selections reach the greatest total.
C11_DeterministicUnderTies ==
    Succeeded => OptimalSelections(DOMAIN pool, budget) = {selected_ids}

\* C12: the squad at position j of squads has squad_number j, and its name
\* and description carry the same number, so the numbers run 1, 2, ..., k
\* without gap or repeat in the order of the rounds.
C12_NumberedInOrder ==
    \A j \in 1..Len(squads) :
        /\ squads[j].squad_number = j
        /\ squads[j].squad_name = <<"Squad Option ", j>>
        /\ squads[j].description = <<"Optimal squad #", j, " maximizing predicted points">>
        /\ SquadOf(squads[j]) = BuildSquad(rounds[j].handed, rounds[j].selected)

\* A run returned with a second squad, numbered 2, after a first numbered 1
C12_Witness ==
    /\ pc = "returned"
    /\ Len(squads) >= 2
    /\ squads[1].squad_number = 1
    /\ squads[2].squad_number = 2

\* C13: of two consecutive squads the later has a total_predicted that is at
\* most that of the earlier, and the later round was handed a subset of the
\* ids handed to the earlier round.
C13_RankedOrder ==
    \A j \in 1..(Len(squads) - 1) :
        /\ squads[j + 1].total_predicted <= squads[j].total_predicted
        /\ rounds[j + 1].handed \subseteq rounds[j].handed

\* A run returned two squads, the second of strictly lower total
C13_Witness ==
    /\ pc = "returned"
    /\ Len(squads) >= 2
    /\ squads[2].total_predicted < squads[1].total_predicted

\* A list of rows in descending order of predicted points
Descending(list) ==
    \A n \in 1..(Len(list) - 1) :
        list[n].predicted_points >= list[n + 1].predicted_points

\* C14: in a successful result the goalkeepers, the defenders, the
\* midfielders and the forwards are each in descending order of predicted
\* points.
C14_PositionListsSorted ==
    Succeeded =>
        /\ Descending(result.goalkeepers)
        /\ Descending(result.defenders)
        /\ Descending(result.midfielders)
        /\ Descending(result.forwards)

====
